---- MODULE Spec2Model ----
(***************************************************************************)
(* DocCollab frontend: the DocumentEditor page (Client Sync Agent).        *)
(* One React component instance per client; each handler of               *)
(* src/src/pages/DocumentEditor.jsx is one action, taken together with the *)
(* re-render and the effect flush it causes.  The Synchronization Gateway  *)
(* is not part of this repository; where a claim needs it, it is modelled  *)
(* from the specification (room registry and relay only).                  *)
(* The other pages of the application (AuthContext and the route guard of  *)
(* App.jsx, the Dashboard, the OTP registration form) have their own       *)
(* state and their own specifications further down.                        *)
(***************************************************************************)
EXTENDS Integers, Sequences, FiniteSets, TLC

VARIABLES editor, inflight, pendingRestore, emitted, toasts, step, lastRecv,
          user, docs, sendBuffer, wire, rooms, inbox, relayed,
          canonical, snapshots,
          session, dashboard, registration

clientVars == <<editor, inflight, pendingRestore, emitted, toasts, step, lastRecv>>
envVars == <<user, docs>>
netVars == <<sendBuffer, wire, rooms, inbox, relayed>>
storeVars == <<canonical, snapshots>>
vars == <<editor, inflight, pendingRestore, emitted, toasts, step, lastRecv,
          user, docs, sendBuffer, wire, rooms, inbox, relayed,
          canonical, snapshots, session, dashboard, registration>>


----------------------------------------------------------------------------
(* Bounds *)

\* route changes /d/x -> /d/y one mounted instance goes through
MaxRoutes == 1
\* longest sharedWith list drawn for the role derivation
MaxShared == 2
\* events in transit between the clients and the gateway, both directions
MaxInTransit == 2
\* version listing requests one instance has in flight
MaxVersionReqs == 2
\* snapshots a document's sequence grows to
MaxSnapshots == 7
\* snapshots appended to a document's sequence while pages are open
MaxSaves == 2
\* login and register calls of the auth context in flight at once
MaxCalls == 2
\* delete requests of the Dashboard in flight at once
MaxDeletes == 2

----------------------------------------------------------------------------
(* Value domains *)

Null == "null"
Clients == {"c1", "c2"}
DocIds == {"D1", "D2"}
Users == {"u1", "u2", "u3"}
Roles == {"viewer", "editor"}
\* rich-text strings; "" is the empty (falsy) string
Contents == {"", "a", "b"}

\* document state before the fetch (useState(null)); no cleanup registered
NoDocument == [null |-> TRUE]
NoCleanup == [null |-> TRUE]
NoRestore == [null |-> TRUE]
\* Array.prototype.find found nothing (undefined)
NoGrant == [null |-> TRUE]
\* no send-changes was relayed in a room yet
NoRelay == [null |-> TRUE]

Last(s) == s[Len(s)]

SeqsUpTo(S, n) == UNION {[1..k -> S] : k \in 0..n}

\* role grants are unique per userId (data model of Document)
SharedLists ==
  {s \in SeqsUpTo([userId : Users, role : Roles], MaxShared) :
      \A i, j \in 1..Len(s) : i # j => s[i].userId # s[j].userId}

AllDocs(d) == [_id : {d}, owner : Users, sharedWith : SharedLists]

\* one document per way a user can relate to it
DocVariants(d, u) ==
  LET o == CHOOSE x \in Users : x # u
      p == CHOOSE x \in Users : x # u /\ x # o
  IN { [_id |-> d, owner |-> u, sharedWith |-> <<>>],
       [_id |-> d, owner |-> o, sharedWith |-> <<>>],
       [_id |-> d, owner |-> o,
        sharedWith |-> <<[userId |-> p, role |-> "editor"], [userId |-> u, role |-> "viewer"]>>],
       [_id |-> d, owner |-> o,
        sharedWith |-> <<[userId |-> p, role |-> "viewer"], [userId |-> u, role |-> "editor"]>>] }

----------------------------------------------------------------------------
(* Permission derivation, DocumentEditor.jsx lines 45-49 *)

\* Array.prototype.find: the first element that satisfies the predicate
find(s, uid) ==
  IF \E i \in 1..Len(s) : s[i].userId = uid
  THEN s[CHOOSE i \in 1..Len(s) :
           /\ s[i].userId = uid
           /\ \A j \in 1..(i - 1) : s[j].userId # uid]
  ELSE NoGrant

\* document?.owner?._id === user?._id   (user is non-null under ProtectedRoute)
isOwner(document, uid) ==
  IF document = NoDocument THEN FALSE ELSE document.owner = uid

userRoleMutant(document, uid) ==
  IF isOwner(document, uid) THEN "owner"
  ELSE IF document = NoDocument THEN "viewer"
  ELSE IF find(document.sharedWith, uid) = NoGrant THEN "editor"
  ELSE find(document.sharedWith, uid).role

\* isOwner ? 'owner' : document?.sharedWith?.find(...)?.role || 'viewer'
userRole(document, uid) ==
  IF isOwner(document, uid) THEN "owner"
  ELSE IF document = NoDocument THEN "viewer"
  ELSE IF find(document.sharedWith, uid) = NoGrant THEN "viewer"
  ELSE find(document.sharedWith, uid).role

isReadOnly(document, uid) == userRole(document, uid) = "viewer"

----------------------------------------------------------------------------
(* Component state *)

\* useState initial values, lines 16-38; socket is the socket object the
\* state refers to together with its status: Null, "offline" (created, not
\* connected), "connected" or "closed" (disconnect() was called on it).
\* eff is the closure of the socket effect whose cleanup is registered;
\* routed counts the route changes of the instance.
\* versions .. isLoadingVersions are the version listing of lines 31-34;
\* versionReqs are the listing requests of the instance that are in flight,
\* each with the id of the render that issued it.
Unmounted ==
  [mounted |-> FALSE, id |-> Null, document |-> NoDocument, content |-> "",
   loading |-> TRUE, error |-> Null, isSaving |-> FALSE, socket |-> Null,
   contentRef |-> "", eff |-> NoCleanup, isRestoring |-> FALSE,
   showHistoryModal |-> FALSE, routed |-> 0,
   versions |-> <<>>, versionPage |-> 1, versionTotalPages |-> 1,
   isLoadingVersions |-> FALSE, versionReqs |-> <<>>]

Role(c) == userRole(editor[c].document, user[c])
ReadOnly(c) == isReadOnly(editor[c].document, user[c])

\* lines 195-197: the editor layout is rendered
EditorShown(c) ==
  /\ editor[c].mounted
  /\ ~editor[c].loading
  /\ editor[c].error = Null
  /\ editor[c].document # NoDocument

\* a toast shown to the user (react-hot-toast)
Toast(kind, msg) == [kind |-> kind, msg |-> msg]

\* an emitted socket event; the payload is a record, the bare id of
\* join-document being [id |-> id]; connected is s.connected at the time of the
\* emit, closed tells that disconnect() had been called on the socket, role
\* is the role derived from the committed document at that time
Ev(name, payload, sock, role) ==
  [ev |-> name, payload |-> payload, connected |-> (sock = "connected"),
   closed |-> (sock = "closed"), role |-> role]

----------------------------------------------------------------------------
(* Effects *)

cleanupNoFlush(st, role) == <<>>

\* lines 87-98, the events the cleanup of the socket effect emits before
\* s.disconnect(): id, isReadOnly and user are those of the closure
cleanup(st, role) ==
  IF st.eff # NoCleanup /\ st.socket = "connected" /\ ~st.eff.isReadOnly
     /\ st.contentRef # ""
  THEN <<Ev("save-document",
            [documentId |-> st.eff.id, content |-> st.contentRef,
             savedBy |-> st.eff.user], st.socket, role)>>
  ELSE <<>>

\* lines 71-84, the body of the socket effect: nothing without a document,
\* else a new socket (not yet connected), setSocket, join-document
socketEffect(st, uid) ==
  IF st.document = NoDocument
  THEN [st |-> [st EXCEPT !.eff = NoCleanup], out |-> <<>>]
  ELSE [st |-> [st EXCEPT !.socket = "offline",
                          !.eff = [id |-> st.id,
                                   isReadOnly |-> isReadOnly(st.document, uid),
                                   user |-> uid]],
        out |-> <<Ev("join-document", [id |-> st.id], "offline", userRole(st.document, uid))>>]

\* The effect flush after a commit: prev is the committed state before the
\* update (its eff is the registered cleanup), next the state after the
\* setState calls.  React runs the cleanups of the effects whose
\* dependencies changed, then the effect bodies in declaration order:
\* contentRef (lines 41-43), then the socket effect (lines 71-99).
flushEffects(prev, next, uid, depsChanged) ==
  LET role == userRole(next.document, uid)
      clean == IF depsChanged THEN cleanup(prev, role) ELSE <<>>
      closed == IF depsChanged /\ prev.eff # NoCleanup
                THEN [next EXCEPT !.socket = "closed", !.eff = NoCleanup]
                ELSE next
      synced == [closed EXCEPT !.contentRef = next.content]
      made == IF depsChanged THEN socketEffect(synced, uid)
              ELSE [st |-> synced, out |-> <<>>]
  IN [st |-> made.st, out |-> clean \o made.out]

----------------------------------------------------------------------------
(* Handlers: each yields the next component state and the events emitted *)

receiveChangesMerge(st, incomingContent) ==
  [st EXCEPT !.content = IF st.content = "" THEN incomingContent ELSE st.content]

\* lines 82-84: s.on('receive-changes', ...)
receiveChanges(st, incomingContent) ==
  [st EXCEPT !.content = incomingContent]

handleEditorChangeAnySource(st, newContent, source, role) ==
  [st |-> [st EXCEPT !.content = newContent],
   out |-> IF st.socket # Null
           THEN <<Ev("send-changes", [documentId |-> st.id, delta |-> newContent],
                     st.socket, role)>>
           ELSE <<>>]

handleEditorChangeNoDraft(st, newContent, source, role) ==
  IF source # "user" THEN [st |-> st, out |-> <<>>]
  ELSE [st |-> st,
        out |-> IF st.socket # Null
                THEN <<Ev("send-changes", [documentId |-> st.id, delta |-> newContent],
                          st.socket, role)>>
                ELSE <<>>]

handleEditorChangeAutosave(st, newContent, source, role) ==
  IF source # "user" THEN [st |-> st, out |-> <<>>]
  ELSE [st |-> [st EXCEPT !.content = newContent],
        out |-> IF st.socket # Null
                THEN <<Ev("send-changes", [documentId |-> st.id, delta |-> newContent],
                          st.socket, role),
                       Ev("save-document",
                          [documentId |-> st.id, content |-> newContent,
                           savedBy |-> Null], st.socket, role)>>
                ELSE <<>>]

handleEditorChangeStale(st, newContent, source, role) ==
  IF source # "user" THEN [st |-> st, out |-> <<>>]
  ELSE [st |-> [st EXCEPT !.content = newContent],
        out |-> IF st.socket # Null
                THEN <<Ev("send-changes", [documentId |-> st.id, delta |-> st.content],
                          st.socket, role)>>
                ELSE <<>>]

\* lines 102-111
handleEditorChange(st, newContent, source, role) ==
  IF source # "user" THEN [st |-> st, out |-> <<>>]
  ELSE [st |-> [st EXCEPT !.content = newContent],
        out |-> IF st.socket # Null
                THEN <<Ev("send-changes", [documentId |-> st.id, delta |-> newContent],
                          st.socket, role)>>
                ELSE <<>>]

\* lines 113-127 (socket.emit does not throw: the catch branch is dead)
handleManualSave(st, uid) ==
  IF isReadOnly(st.document, uid) THEN [st |-> st, toast |-> <<>>, out |-> <<>>]
  ELSE [st |-> [st EXCEPT !.isSaving = TRUE],
        toast |-> <<Toast("success", "Document saved explicitly")>>,
        out |-> IF st.socket # Null
                THEN <<Ev("save-document",
                          [documentId |-> st.id, content |-> st.content, savedBy |-> uid],
                          st.socket, userRole(st.document, uid))>>
                ELSE <<>>]

\* lines 129-133, the events goBack emits before navigate('/')
goBack(st, uid) ==
  IF ~isReadOnly(st.document, uid) /\ st.socket # Null
  THEN <<Ev("save-document",
            [documentId |-> st.id, content |-> st.contentRef, savedBy |-> uid],
            st.socket, userRole(st.document, uid))>>
  ELSE <<>>

\* lines 56-58 and 63: the fetch succeeded with data
fetchDocumentOk(st, data) ==
  [st EXCEPT !.document = [_id |-> data._id, owner |-> data.owner,
                           sharedWith |-> data.sharedWith],
             !.content = IF data.content = Null THEN "" ELSE data.content,
             !.loading = FALSE]

\* lines 59-63: the fetch failed
fetchDocumentFailed(st) ==
  [st EXCEPT !.error = "Error loading document", !.loading = FALSE]

\* lines 176-178: the click; the continuation keeps the id and the socket of
\* the render in which the button was clicked
handleRestoreVersion(st, confirmed) ==
  IF ~confirmed THEN st ELSE [st EXCEPT !.isRestoring = TRUE]

\* lines 181-186 and 191: the request succeeded with data.document.content
restoreOk(st, restored) ==
  [st EXCEPT !.content = restored, !.showHistoryModal = FALSE,
             !.isRestoring = FALSE]

restoreFailedStuck(st) ==
  [st EXCEPT !.showHistoryModal = FALSE]

\* lines 187-191: the request failed
restoreFailed(st) ==
  [st EXCEPT !.isRestoring = FALSE]

\* lines 182-184, with the socket and id of the click's closure
restoreEmits(pr, restored, sock, role) ==
  IF pr.hasSocket
  THEN <<Ev("send-changes", [documentId |-> pr.id, delta |-> restored], sock, role)>>
  ELSE <<>>

\* line 159: the page size of every listing request
PageLimit == 5

\* lines 157 and 159: the request is issued with the id of this render
fetchVersions(st, page) ==
  [st EXCEPT !.isLoadingVersions = TRUE,
             !.versionReqs = Append(@, [id |-> st.id, page |-> page])]

fetchVersionsKeepsPage(st, data) ==
  [st EXCEPT !.versions = data.versions,
             !.versionTotalPages = data.totalPages,
             !.isLoadingVersions = FALSE]

\* lines 160-162 and 167: the listing answered with data
fetchVersionsOk(st, data) ==
  [st EXCEPT !.versions = data.versions,
             !.versionPage = data.currentPage,
             !.versionTotalPages = data.totalPages,
             !.isLoadingVersions = FALSE]

\* lines 163-167: the listing failed
fetchVersionsFailed(st) ==
  [st EXCEPT !.isLoadingVersions = FALSE]

\* lines 171-174
handleOpenHistory(st) ==
  fetchVersions([st EXCEPT !.showHistoryModal = TRUE], 1)

\* the request at position i of the sequence is answered
Answered(q, i) == [j \in 1..(Len(q) - 1) |-> IF j < i THEN q[j] ELSE q[j + 1]]

\* lines 380-386: the entries of the listing whose Restore button is enabled
Restorable(st) ==
  IF st.isLoadingVersions THEN {}
  ELSE {st.versions[i]._id : i \in {j \in 1..Len(st.versions) :
                                      ~(j = 1 /\ st.versionPage = 1)}}

----------------------------------------------------------------------------
(* Document Store and Version Store: the listing and the writes, as the    *)
(* specification describes them (sections 3, 4.2 and 4.4)                  *)

RECURSIVE Skip(_, _)
Skip(q, n) == IF n <= 0 \/ q = <<>> THEN q ELSE Skip(Tail(q), n - 1)

RECURSIVE Take(_, _)
Take(q, n) == IF n <= 0 \/ q = <<>> THEN <<>> ELSE <<Head(q)>> \o Take(Tail(q), n - 1)

\* the snapshots newest first, each under its id (its position of creation)
NewestFirst(snaps) ==
  [i \in 1..Len(snaps) |->
     [_id |-> Len(snaps) + 1 - i, savedBy |-> snaps[Len(snaps) + 1 - i].savedBy]]

\* versions?page=&limit=: sort newest first, skip, limit, count the pages
listVersions(snaps, page, limit) ==
  [versions |-> Take(Skip(NewestFirst(snaps), (page - 1) * limit), limit),
   currentPage |-> page,
   totalPages |-> (Len(snaps) + limit - 1) \div limit]

----------------------------------------------------------------------------
(* AuthContext.jsx and the routes of App.jsx *)

\* AuthContext.jsx lines 7-8 (useState) with the token found in
\* localStorage; calls are the login and register calls in flight, path is
\* the location of the router, screen the element the last commit rendered
AuthProvider(token) ==
  [token |-> token, user |-> Null, loading |-> TRUE, started |-> FALSE,
   checking |-> FALSE, calls |-> <<>>, path |-> "/", screen |-> "nothing"]

\* lines 10-13 and 21-22: the effect up to the await, or to the end when no
\* token is stored
checkUserLoggedIn(s) ==
  IF s.token # Null THEN [s EXCEPT !.started = TRUE, !.checking = TRUE]
  ELSE [s EXCEPT !.started = TRUE, !.loading = FALSE]

\* lines 15-16 and 22: GET /auth/profile answered with the user
profileOk(s, uid) ==
  [s EXCEPT !.user = uid, !.checking = FALSE, !.loading = FALSE]

profileFailedKeepsToken(s) ==
  [s EXCEPT !.checking = FALSE, !.loading = FALSE]

\* lines 17-19 and 22: the request failed
profileFailed(s) ==
  [s EXCEPT !.token = Null, !.checking = FALSE, !.loading = FALSE]

\* lines 28-33 and 35-40, after the await: login and register store the
\* token of the answer and set the user
signedIn(s, uid) ==
  [s EXCEPT !.token = "good", !.user = uid]

\* lines 42-45
logout(s) ==
  [s EXCEPT !.token = Null, !.user = Null]

ProtectedRouteOpen(s, page) ==
  IF s.loading THEN "loader" ELSE page

\* App.jsx lines 37-45
ProtectedRoute(s, page) ==
  IF s.loading THEN "loader"
  ELSE IF s.user # Null THEN page ELSE "Navigate /login"

\* App.jsx lines 15-25, the element the routes render for a location
Routes(s, path) ==
  CASE path = "/login" -> "Login"
    [] path = "/register" -> "Register"
    [] path = "/" -> ProtectedRoute(s, "Dashboard")
    [] path = "/d/D1" -> ProtectedRoute(s, "DocumentEditor")
    [] OTHER -> "Navigate /"

\* AuthContext.jsx line 49: the children are rendered once loading is over
App(s, path) ==
  IF s.loading THEN "nothing" ELSE Routes(s, path)

\* a commit: the state with the element it renders
Commit(s) == [s EXCEPT !.screen = App(s, s.path)]

----------------------------------------------------------------------------
(* Dashboard.jsx *)

\* lines 11-13 (useState); documents holds the ids of the listed
\* documents, fetching tells that GET /documents is in flight, deletes are
\* the delete requests in flight, each with the documents of the render in
\* which its button was clicked; deleted are the documents the server has
\* deleted
Dashboard ==
  [mounted |-> FALSE, documents |-> <<>>, loading |-> TRUE, error |-> Null,
   fetching |-> FALSE, deletes |-> <<>>, deleted |-> {}, removed |-> {}]

\* lines 24-27
fetchDocuments(st) ==
  [st EXCEPT !.loading = TRUE, !.fetching = TRUE]

\* lines 28 and 33
fetchDocumentsOk(st, data) ==
  [st EXCEPT !.documents = data, !.loading = FALSE, !.fetching = FALSE]

\* lines 29-33
fetchDocumentsFailed(st) ==
  [st EXCEPT !.error = "Failed to load documents", !.loading = FALSE,
             !.fetching = FALSE]

\* Array.prototype.filter(doc => doc._id !== id)
filter(documents, id) == SelectSeq(documents, LAMBDA x : x # id)

\* lines 55-59: the confirm dialog and the request; the continuation keeps
\* the documents of the render of the click
handleDeleteDocument(st, id, confirmed) ==
  IF ~confirmed THEN st
  ELSE [st EXCEPT !.deletes = Append(@, [id |-> id, documents |-> st.documents,
                                         live |-> TRUE])]

\* line 60
deleteOk(st, req) ==
  [st EXCEPT !.documents = filter(req.documents, req.id)]

\* GET /documents: the documents the user owns or shares, as the server
\* has them
Listed(uid, deleted) ==
  SelectSeq(<<"D1", "D2">>,
            LAMBDA d : /\ d \notin deleted
                       /\ \/ docs[d].owner = uid
                          \/ \E i \in 1..Len(docs[d].sharedWith) :
                               docs[d].sharedWith[i].userId = uid)

----------------------------------------------------------------------------
(* The registration form with e-mail verification (unnamed/part_000) *)

\* the codes of six digits among the values typed into the OTP field
SixDigits(otp) == otp \in {"123456", "654321"}

NoRequest == [null |-> TRUE]

\* lines 10-19 (useState); request is the request in flight, verified the
\* e-mail of the last verify-otp that succeeded, left tells that the page
\* navigated away
Register ==
  [step |-> 1, email |-> "", otp |-> "", error |-> Null, isLoading |-> FALSE,
   request |-> NoRequest, verified |-> Null, left |-> FALSE]

\* lines 69-76; err is what the failed request carries: no response, a
\* message, a list of validation errors
handleError(st, err, defaultMsg) ==
  [st EXCEPT !.error = CASE err = "errors" -> "Validation error: messages"
                         [] err = "message" -> "message"
                         [] OTHER -> defaultMsg]

\* lines 24-29, 39-44, 54-59: each handler up to its await
submit(st, kind) ==
  [st EXCEPT !.isLoading = TRUE, !.error = Null,
             !.request = [kind |-> kind, email |-> st.email, otp |-> st.otp]]

handleSendOTP(st) == submit(st, "send-otp")
handleVerifyOTP(st) == submit(st, "verify-otp")
handleFinalRegister(st) == submit(st, "register")

\* the finally branch of each handler (lines 35, 50, 65)
finally(st) == [st EXCEPT !.isLoading = FALSE, !.request = NoRequest]

\* lines 30-31
sendOtpOk(st) == finally([st EXCEPT !.step = 2])

\* lines 32-33
sendOtpFailed(st, err) == finally(handleError(st, err, "Failed to send OTP"))

\* lines 45-46
verifyOtpOk(st) ==
  finally([st EXCEPT !.step = 3, !.verified = st.request.email])

verifyOtpFailedAdvances(st, err) ==
  finally([handleError(st, err, "Invalid OTP") EXCEPT !.step = 3])

\* lines 47-48
verifyOtpFailed(st, err) == finally(handleError(st, err, "Invalid OTP"))

\* lines 60-61: navigate('/')
registerOk(st) == finally([st EXCEPT !.left = TRUE])

\* lines 62-63
registerFailed(st, err) == finally(handleError(st, err, "Registration failed"))

----------------------------------------------------------------------------
(* Initial state: no editor page is open *)

InitEditor ==
  /\ editor = [c \in Clients |-> Unmounted]
  /\ inflight = [c \in Clients |-> [d \in DocIds |-> 0]]
  /\ pendingRestore = [c \in Clients |-> NoRestore]
  /\ emitted = <<>>
  /\ toasts = <<>>
  /\ step = [op |-> "init", c |-> Null]
  /\ lastRecv = [c \in Clients |-> [seen |-> FALSE, content |-> ""]]

\* the other pages as constructed, nothing requested yet
InitClient ==
  /\ InitEditor
  /\ session = AuthProvider(Null)
  /\ dashboard = Dashboard
  /\ registration = Register

InitNet ==
  /\ sendBuffer = [c \in Clients |-> <<>>]
  /\ wire = [c \in Clients |-> <<>>]
  /\ rooms = [d \in DocIds |-> {}]
  /\ inbox = [c \in Clients |-> <<>>]
  /\ relayed = [d \in DocIds |-> NoRelay]

\* a document saved twice by its owner: "a", then "b"
Saved(d) ==
  <<[content |-> "a", savedBy |-> docs[d].owner],
    [content |-> "b", savedBy |-> docs[d].owner]>>

\* D1 was saved twice; D2 was created and never saved: it has no content
\* and no snapshot
InitStore ==
  /\ canonical = [d \in DocIds |-> IF d = "D1" THEN "b" ELSE Null]
  /\ snapshots = [d \in DocIds |-> IF d = "D1" THEN Saved(d) ELSE <<>>]

Init ==
  /\ InitClient
  /\ InitNet
  /\ user = [c \in Clients |-> IF c = "c1" THEN "u1" ELSE "u2"]
  /\ docs \in [DocIds -> UNION {DocVariants(d, "u1") : d \in DocIds}]
  /\ \A d \in DocIds : docs[d]._id = d
  /\ InitStore

----------------------------------------------------------------------------
(* Actions of one client *)

Set(c, st) == editor' = [editor EXCEPT ![c] = st]

\* step names the handler that ran last; a handler that emits nothing,
\* shows no toast and leaves the draft and the document alone is idle
Idle(c) == [op |-> "idle", c |-> c]

\* the socket a pending restore captured was disconnected by this step
Outdate(c, closes) ==
  pendingRestore' =
    IF closes /\ pendingRestore[c] # NoRestore
    THEN [pendingRestore EXCEPT ![c] = [@ EXCEPT !.stale = TRUE]]
    ELSE pendingRestore

\* the route /d/:id is entered: a new component instance, first render and
\* first effect flush (fetchDocument starts, the socket effect returns early)
Mount(c, d) ==
  /\ ~editor[c].mounted
  /\ pendingRestore[c] = NoRestore
  /\ Set(c, [Unmounted EXCEPT !.mounted = TRUE, !.id = d])
  /\ inflight' = [inflight EXCEPT ![c] = [x \in DocIds |-> IF x = d THEN 1 ELSE 0]]
  /\ emitted' = <<>>
  /\ toasts' = <<>>
  /\ step' = [op |-> "Mount", c |-> c]
  /\ lastRecv' = [lastRecv EXCEPT ![c] = [seen |-> FALSE, content |-> ""]]
  /\ UNCHANGED pendingRestore

\* GET /documents/:d answers with data (lines 56-58); d may be an id the
\* route has left since
FetchOk(c, d, data) ==
  /\ editor[c].mounted
  /\ inflight[c][d] > 0
  /\ LET next == fetchDocumentOk(editor[c], data)
         r == flushEffects(editor[c], next, user[c], TRUE)
     IN /\ Set(c, r.st)
        /\ emitted' = r.out
        /\ toasts' = <<>>
        /\ Outdate(c, editor[c].eff # NoCleanup)
  /\ inflight' = [inflight EXCEPT ![c][d] = @ - 1]
  /\ step' = [op |-> "FetchOk", c |-> c]
  /\ lastRecv' = [lastRecv EXCEPT ![c] = [seen |-> TRUE, content |-> data.content]]

FetchFailed(c, d) ==
  /\ editor[c].mounted
  /\ inflight[c][d] > 0
  /\ Set(c, fetchDocumentFailed(editor[c]))
  /\ inflight' = [inflight EXCEPT ![c][d] = @ - 1]
  /\ emitted' = <<>>
  /\ toasts' = <<>>
  /\ step' = Idle(c)
  /\ UNCHANGED <<pendingRestore, lastRecv>>

\* the route parameter changes on the mounted instance (history traversal
\* from /d/x to /d/y): the [id] effects re-run, document is kept
RouteChange(c, d) ==
  /\ editor[c].mounted
  /\ d # editor[c].id
  /\ editor[c].routed < MaxRoutes
  /\ LET next == [editor[c] EXCEPT !.id = d, !.loading = TRUE, !.routed = @ + 1]
         r == flushEffects(editor[c], next, user[c], TRUE)
     IN /\ Set(c, r.st)
        /\ emitted' = r.out
        /\ toasts' = <<>>
        /\ Outdate(c, editor[c].eff # NoCleanup)
  /\ inflight' = [inflight EXCEPT ![c][d] = @ + 1]
  /\ step' = [op |-> "RouteChange", c |-> c]
  /\ UNCHANGED lastRecv

\* the socket (re)connects / the transport drops
Connect(c) ==
  /\ editor[c].socket = "offline"
  /\ Set(c, [editor[c] EXCEPT !.socket = "connected"])
  /\ emitted' = <<>>
  /\ toasts' = <<>>
  /\ step' = Idle(c)
  /\ UNCHANGED <<inflight, pendingRestore, lastRecv>>

Drop(c) ==
  /\ editor[c].socket = "connected"
  /\ Set(c, [editor[c] EXCEPT !.socket = "offline"])
  /\ emitted' = <<>>
  /\ toasts' = <<>>
  /\ step' = Idle(c)
  /\ UNCHANGED <<inflight, pendingRestore, lastRecv>>

\* a receive-changes payload arrives on the connected socket: the listener,
\* the re-render, and the onChange ReactQuill fires for the new value prop
\* (source 'api') when the editor is rendered
Receive(c, incomingContent) ==
  /\ editor[c].mounted
  /\ editor[c].socket = "connected"
  /\ LET next == receiveChanges(editor[c], incomingContent)
         r == flushEffects(editor[c], next, user[c], FALSE)
         h == IF EditorShown(c)
              THEN handleEditorChange(r.st, incomingContent, "api", Role(c))
              ELSE [st |-> r.st, out |-> <<>>]
         r2 == flushEffects(r.st, h.st, user[c], FALSE)
     IN /\ Set(c, r2.st)
        /\ emitted' = h.out
        /\ toasts' = <<>>
  /\ step' = [op |-> "Receive", c |-> c]
  /\ lastRecv' = [lastRecv EXCEPT ![c] = [seen |-> TRUE, content |-> incomingContent]]
  /\ UNCHANGED <<inflight, pendingRestore>>

\* the user types: ReactQuill is editable only when readOnly is false
\* (line 264) and calls onChange with source 'user'
UserEdit(c, newContent) ==
  /\ EditorShown(c)
  /\ ~ReadOnly(c)
  /\ newContent # editor[c].content
  /\ LET h == handleEditorChange(editor[c], newContent, "user", Role(c))
         r == flushEffects(editor[c], h.st, user[c], FALSE)
     IN /\ Set(c, r.st)
        /\ emitted' = h.out
        /\ toasts' = <<>>
  /\ step' = [op |-> "UserEdit", c |-> c]
  /\ lastRecv' = [lastRecv EXCEPT ![c] = [seen |-> TRUE, content |-> newContent]]
  /\ UNCHANGED <<inflight, pendingRestore>>

\* the Save Now button: rendered for non-viewers (line 228), disabled while
\* isSaving (line 232)
ManualSave(c) ==
  /\ EditorShown(c)
  /\ ~ReadOnly(c)
  /\ ~editor[c].isSaving
  /\ LET h == handleManualSave(editor[c], user[c])
     IN /\ Set(c, h.st)
        /\ emitted' = h.out
        /\ toasts' = h.toast
  /\ step' = [op |-> "ManualSave", c |-> c]
  /\ UNCHANGED <<inflight, pendingRestore, lastRecv>>

\* line 125: setTimeout(() => setIsSaving(false), 500)
SaveTimer(c) ==
  /\ editor[c].mounted
  /\ editor[c].isSaving
  /\ Set(c, [editor[c] EXCEPT !.isSaving = FALSE])
  /\ emitted' = <<>>
  /\ toasts' = <<>>
  /\ step' = Idle(c)
  /\ UNCHANGED <<inflight, pendingRestore, lastRecv>>

\* the component unmounts: the cleanup of the socket effect, then the
\* instance is gone; answers to its requests no longer set state
Teardown(c, before, op) ==
  /\ emitted' = before \o cleanup(editor[c], Role(c))
  /\ toasts' = <<>>
  /\ Set(c, Unmounted)
  /\ inflight' = [inflight EXCEPT ![c] = [d \in DocIds |-> 0]]
  /\ pendingRestore' =
       IF pendingRestore[c] # NoRestore
       THEN [pendingRestore EXCEPT ![c] =
               [@ EXCEPT !.stale = @ \/ editor[c].eff # NoCleanup, !.live = FALSE,
                         !.role = Role(c)]]
       ELSE pendingRestore
  /\ step' = [op |-> op, c |-> c]
  /\ UNCHANGED lastRecv

\* the back button of the editor header (line 214)
GoBack(c) ==
  /\ EditorShown(c)
  /\ Teardown(c, goBack(editor[c], user[c]), "GoBack")

\* any other way of leaving the page
Unmount(c) ==
  /\ editor[c].mounted
  /\ Teardown(c, <<>>, "Unmount")

\* the history button (lines 171-174, 249) and the close button (line 335)
OpenHistory(c) ==
  /\ EditorShown(c)
  /\ ~editor[c].showHistoryModal
  /\ Len(editor[c].versionReqs) < MaxVersionReqs
  /\ Set(c, handleOpenHistory(editor[c]))
  /\ emitted' = <<>>
  /\ toasts' = <<>>
  /\ step' = Idle(c)
  /\ UNCHANGED <<inflight, pendingRestore, lastRecv>>

CloseHistory(c) ==
  /\ EditorShown(c)
  /\ editor[c].showHistoryModal
  /\ Set(c, [editor[c] EXCEPT !.showHistoryModal = FALSE])
  /\ emitted' = <<>>
  /\ toasts' = <<>>
  /\ step' = Idle(c)
  /\ UNCHANGED <<inflight, pendingRestore, lastRecv>>

\* the listing answers (any of the requests in flight)
FetchVersionsOk(c) ==
  /\ editor[c].mounted
  /\ \E i \in 1..Len(editor[c].versionReqs) :
       LET req == editor[c].versionReqs[i]
           data == listVersions(snapshots[req.id], req.page, PageLimit)
           next == fetchVersionsOk(editor[c], data)
       IN Set(c, [next EXCEPT !.versionReqs = Answered(@, i)])
  /\ emitted' = <<>>
  /\ toasts' = <<>>
  /\ step' = Idle(c)
  /\ UNCHANGED <<inflight, pendingRestore, lastRecv>>

FetchVersionsFailed(c) ==
  /\ editor[c].mounted
  /\ \E i \in 1..Len(editor[c].versionReqs) :
       Set(c, [fetchVersionsFailed(editor[c]) EXCEPT !.versionReqs = Answered(@, i)])
  /\ emitted' = <<>>
  /\ toasts' = <<Toast("error", "Failed to load version history")>>
  /\ step' = [op |-> "FetchVersionsFailed", c |-> c]
  /\ UNCHANGED <<inflight, pendingRestore, lastRecv>>

\* the page buttons (lines 397-417): rendered when there is more than one
\* page, disabled at the ends and while a listing loads; by is -1 or 1
PageClick(c, by) ==
  /\ EditorShown(c)
  /\ editor[c].showHistoryModal
  /\ editor[c].versionTotalPages > 1
  /\ ~editor[c].isLoadingVersions
  /\ by = -1 => editor[c].versionPage # 1
  /\ by = 1 => editor[c].versionPage # editor[c].versionTotalPages
  /\ Len(editor[c].versionReqs) < MaxVersionReqs
  /\ Set(c, fetchVersions(editor[c], editor[c].versionPage + by))
  /\ emitted' = <<>>
  /\ toasts' = <<>>
  /\ step' = Idle(c)
  /\ UNCHANGED <<inflight, pendingRestore, lastRecv>>

\* a Restore button of the history modal: rendered for non-viewers
\* (line 380) on the entries of the listing, disabled while isRestoring and
\* on the latest version (line 385)
RestoreClick(c, confirmed) ==
  /\ EditorShown(c)
  /\ editor[c].showHistoryModal
  /\ ~ReadOnly(c)
  /\ ~editor[c].isRestoring
  /\ pendingRestore[c] = NoRestore
  /\ Set(c, handleRestoreVersion(editor[c], confirmed))
  /\ \E v \in Restorable(editor[c]) :
       pendingRestore' =
         IF confirmed
         THEN [pendingRestore EXCEPT ![c] =
                 [id |-> editor[c].id, version |-> v,
                  hasSocket |-> editor[c].socket # Null,
                  stale |-> FALSE, live |-> TRUE, role |-> Null]]
         ELSE pendingRestore
  /\ emitted' = <<>>
  /\ toasts' = <<>>
  /\ step' = Idle(c)
  /\ UNCHANGED <<inflight, lastRecv>>

\* POST .../restore answers; the continuation runs with the closure of the
\* click even when the instance has re-rendered or is unmounted
RestoreOk(c, restored) ==
  /\ pendingRestore[c] # NoRestore
  /\ LET pr == pendingRestore[c]
         sock == IF pr.stale THEN "closed" ELSE editor[c].socket
         role == IF pr.live THEN Role(c) ELSE pr.role
         next == restoreOk(editor[c], restored)
         r == flushEffects(editor[c], next, user[c], FALSE)
     IN /\ Set(c, IF pr.live THEN r.st ELSE editor[c])
        /\ emitted' = restoreEmits(pr, restored, sock, role)
        /\ toasts' = <<Toast("success", "Document restored successfully!")>>
        /\ lastRecv' = IF pr.live
                       THEN [lastRecv EXCEPT ![c] = [seen |-> TRUE, content |-> restored]]
                       ELSE lastRecv
  /\ pendingRestore' = [pendingRestore EXCEPT ![c] = NoRestore]
  /\ step' = [op |-> "RestoreOk", c |-> c]
  /\ UNCHANGED inflight

RestoreFailed(c) ==
  /\ pendingRestore[c] # NoRestore
  /\ Set(c, IF pendingRestore[c].live THEN restoreFailed(editor[c]) ELSE editor[c])
  /\ pendingRestore' = [pendingRestore EXCEPT ![c] = NoRestore]
  /\ emitted' = <<>>
  /\ toasts' = <<Toast("error", "Failed to restore document version")>>
  /\ step' = [op |-> "RestoreFailed", c |-> c]
  /\ UNCHANGED <<inflight, lastRecv>>

----------------------------------------------------------------------------
(* The editor page of one user against an arbitrary gateway and store *)

Solo == "c1"

\* GET /documents/:d answers with the document as the store holds it
FetchData(d) == {[_id |-> docs[d]._id, owner |-> docs[d].owner,
                  sharedWith |-> docs[d].sharedWith, content |-> canonical[d]]}

Alone == UNCHANGED <<user, docs, sendBuffer, wire, rooms, inbox, relayed,
                     canonical, snapshots, session, dashboard, registration>>

Next ==
  \/ \E d \in DocIds : Mount(Solo, d) /\ Alone
  \/ \E d \in DocIds : \E data \in FetchData(d) : FetchOk(Solo, d, data) /\ Alone
  \/ \E d \in DocIds : FetchFailed(Solo, d) /\ Alone
  \/ \E d \in DocIds : RouteChange(Solo, d) /\ Alone
  \/ Connect(Solo) /\ Alone
  \/ Drop(Solo) /\ Alone
  \/ \E x \in Contents : Receive(Solo, x) /\ Alone
  \/ \E x \in Contents : UserEdit(Solo, x) /\ Alone
  \/ ManualSave(Solo) /\ Alone
  \/ SaveTimer(Solo) /\ Alone
  \/ GoBack(Solo) /\ Alone
  \/ Unmount(Solo) /\ Alone
  \/ OpenHistory(Solo) /\ editor[Solo].versionReqs = <<>> /\ Alone
  \/ CloseHistory(Solo) /\ Alone
  \/ \E b \in BOOLEAN : RestoreClick(Solo, b) /\ Alone
  \/ \E x \in Contents : RestoreOk(Solo, x) /\ Alone
  \/ RestoreFailed(Solo) /\ Alone
  \/ FetchVersionsOk(Solo) /\ Alone

Spec == Init /\ [][Next]_vars

----------------------------------------------------------------------------
(* Two editor pages on one document, with the transport and the gateway.   *)
(* The gateway is not in this repository: join, relay and leave follow the *)
(* specification (sections 4.1 and 4.2); the relayed content is the field  *)
(* of the send-changes payload that carries it.                            *)

RoomDoc == "D1"

Disconnected == [ev |-> "disconnect", payload |-> [reason |-> "io client disconnect"]]

\* socket.io-client: an emit on a connected socket goes out, an emit on a
\* socket that is not connected is kept in its send buffer until it
\* connects, and disconnect() drops the buffer and tells the server
Transmit(c) ==
  LET Strip(q) == [i \in 1..Len(q) |-> [ev |-> q[i].ev, payload |-> q[i].payload]]
      sent == Strip(SelectSeq(emitted', LAMBDA e : e.connected))
      kept == Strip(SelectSeq(emitted', LAMBDA e : ~e.connected /\ ~e.closed))
      closes == editor[c].eff # NoCleanup
                  /\ step'.op \in {"FetchOk", "RouteChange", "GoBack", "Unmount"}
      bye == IF closes /\ editor[c].socket = "connected" THEN <<Disconnected>> ELSE <<>>
  IN IF editor[c].socket = "offline" /\ editor'[c].socket = "connected"
     THEN /\ wire' = [wire EXCEPT ![c] = @ \o sendBuffer[c]]
          /\ sendBuffer' = [sendBuffer EXCEPT ![c] = <<>>]
     ELSE /\ wire' = [wire EXCEPT ![c] = @ \o sent \o bye]
          /\ sendBuffer' = [sendBuffer EXCEPT ![c] = IF closes THEN kept ELSE @ \o kept]

\* the stores take no part in a step
NoStore == UNCHANGED <<canonical, snapshots>>

InRoom(c) ==
  Transmit(c) /\ NoStore /\ UNCHANGED <<user, docs, rooms, inbox, relayed, session, dashboard, registration>>

RECURSIVE Sum(_, _)
Sum(f, S) == IF S = {} THEN 0
             ELSE LET x == CHOOSE y \in S : TRUE IN f[x] + Sum(f, S \ {x})

InTransit ==
  Sum([c \in Clients |-> Len(wire[c]) + Len(sendBuffer[c]) + Len(inbox[c])], Clients)

HasRoom(n) == InTransit + n <= MaxInTransit

\* a gateway step: the clients are left alone
Processed(c, op) ==
  /\ emitted' = <<>>
  /\ toasts' = <<>>
  /\ step' = [op |-> op, c |-> c]
  /\ UNCHANGED <<editor, inflight, pendingRestore, lastRecv, session, dashboard, registration>>

\* join-document: the connection is registered in the room
GatewayJoin(c) ==
  /\ wire[c] # <<>>
  /\ Head(wire[c]).ev = "join-document"
  /\ rooms' = [rooms EXCEPT ![Head(wire[c]).payload.id] = @ \cup {c}]
  /\ wire' = [wire EXCEPT ![c] = Tail(@)]
  /\ Processed(c, "GatewayJoin")
  /\ UNCHANGED <<envVars, sendBuffer, inbox, relayed>>

\* send-changes: relayed verbatim to every other member of the room, in
\* arrival order; ignored when the sender is not in the room
GatewaySendChanges(c) ==
  /\ wire[c] # <<>>
  /\ Head(wire[c]).ev = "send-changes"
  /\ LET d == Head(wire[c]).payload.documentId
         x == Head(wire[c]).payload.delta
     IN IF c \in rooms[d]
        THEN /\ HasRoom(Cardinality(rooms[d] \ {c}) - 1)
             /\ inbox' = [p \in Clients |->
                            IF p \in rooms[d] \ {c} THEN Append(inbox[p], x) ELSE inbox[p]]
             /\ relayed' = [relayed EXCEPT ![d] =
                              [content |-> x, by |-> c, members |-> rooms[d]]]
        ELSE UNCHANGED <<inbox, relayed>>
  /\ wire' = [wire EXCEPT ![c] = Tail(@)]
  /\ Processed(c, "GatewaySendChanges")
  /\ UNCHANGED <<envVars, sendBuffer, rooms>>

\* save-document: handed to the stores
GatewaySave(c) ==
  /\ wire[c] # <<>>
  /\ Head(wire[c]).ev = "save-document"
  /\ wire' = [wire EXCEPT ![c] = Tail(@)]
  /\ Processed(c, "GatewaySave")
  /\ UNCHANGED <<envVars, sendBuffer, rooms, inbox, relayed>>

\* the connection is gone: it leaves its room, nothing more is delivered
GatewayLeave(c) ==
  /\ wire[c] # <<>>
  /\ Head(wire[c]).ev = "disconnect"
  /\ rooms' = [d \in DocIds |-> rooms[d] \ {c}]
  /\ inbox' = [inbox EXCEPT ![c] = <<>>]
  /\ relayed' = [d \in DocIds |->
                   IF relayed[d] = NoRelay THEN NoRelay
                   ELSE [relayed[d] EXCEPT !.members = @ \ {c}]]
  /\ wire' = [wire EXCEPT ![c] = Tail(@)]
  /\ Processed(c, "GatewayLeave")
  /\ UNCHANGED <<envVars, sendBuffer>>

\* receive-changes reaches the client
Deliver(c) ==
  /\ inbox[c] # <<>>
  /\ Receive(c, Head(inbox[c]))
  /\ inbox' = [inbox EXCEPT ![c] = Tail(@)]
  /\ UNCHANGED <<envVars, sendBuffer, wire, rooms, relayed, session, dashboard, registration>>

\* the document as first fetched: created from the Dashboard, still empty
RoomData == [_id |-> docs[RoomDoc]._id, owner |-> docs[RoomDoc].owner,
             sharedWith |-> docs[RoomDoc].sharedWith, content |-> canonical[RoomDoc]]

InitRoom ==
  /\ InitClient
  /\ InitNet
  /\ canonical = [d \in DocIds |-> ""]
  /\ snapshots = [d \in DocIds |-> <<>>]
  /\ user = [c \in Clients |-> IF c = "c1" THEN "u1" ELSE "u2"]
  /\ \E r \in Roles :
       docs = [d \in DocIds |->
                 [_id |-> d, owner |-> "u1",
                  sharedWith |-> <<[userId |-> "u2", role |-> r]>>]]

NextRoom ==
  \/ \E c \in Clients :
       Mount(c, RoomDoc) /\ wire[c] = <<>> /\ inbox[c] = <<>> /\ InRoom(c)
  \/ \E c \in Clients : FetchOk(c, RoomDoc, RoomData) /\ HasRoom(1) /\ InRoom(c)
  \/ \E c \in Clients : Connect(c) /\ InRoom(c)
  \/ \E c \in Clients : \E x \in Contents :
       UserEdit(c, x) /\ HasRoom(1) /\ InRoom(c)
  \/ \E c \in Clients : Unmount(c) /\ HasRoom(2) /\ InRoom(c)
  \/ \E c \in Clients : GatewayJoin(c) /\ NoStore
  \/ \E c \in Clients : GatewaySendChanges(c) /\ NoStore
  \/ \E c \in Clients : GatewaySave(c) /\ NoStore
  \/ \E c \in Clients : GatewayLeave(c) /\ NoStore
  \/ \E c \in Clients : Deliver(c) /\ NoStore

SpecRoom == InitRoom /\ [][NextRoom]_vars

\* the transport hands every packet it holds for a connected client to the
\* client's listener
FairRoom ==
  /\ SpecRoom
  /\ \A c \in Clients : WF_vars(Deliver(c) /\ NoStore)

----------------------------------------------------------------------------
(* The room when the transport of a client can fail and reconnect *)

TransportClosed == [ev |-> "disconnect", payload |-> [reason |-> "transport close"]]

\* the connection of c breaks: the gateway sees the disconnect, the socket
\* object stays and reconnects by itself later (Connect); the effect of
\* lines 71-99 does not re-run, its dependencies being unchanged
Lost(c) ==
  /\ Drop(c)
  /\ HasRoom(1)
  /\ wire' = [wire EXCEPT ![c] = Append(@, TransportClosed)]
  /\ NoStore
  /\ UNCHANGED <<user, docs, sendBuffer, rooms, inbox, relayed, session, dashboard, registration>>

NextRejoin ==
  \/ NextRoom
  \/ \E c \in Clients : Lost(c)

SpecRejoin == InitRoom /\ [][NextRejoin]_vars

----------------------------------------------------------------------------
(* The room with the Document Store and the Version Store behind the gateway *)

PersistReplacingLatest(d, content, by) ==
  /\ canonical' = [canonical EXCEPT ![d] = content]
  /\ snapshots' = [snapshots EXCEPT ![d] =
                     [@ EXCEPT ![Len(@)] = [content |-> content, savedBy |-> by]]]

\* a persistence event: the canonical content is overwritten and a snapshot
\* is appended
Persist(d, content, by) ==
  /\ canonical' = [canonical EXCEPT ![d] = content]
  /\ snapshots' = [snapshots EXCEPT ![d] =
                     Append(@, [content |-> content, savedBy |-> by])]

CanAppend(d) == Len(snapshots[d]) < Len(Saved(d)) + MaxSaves

\* save-document reaches the gateway (manual save or the flush of a
\* leaving page)
GatewayPersist(c) ==
  /\ GatewaySave(c)
  /\ CanAppend(Head(wire[c]).payload.documentId)
  /\ Persist(Head(wire[c]).payload.documentId, Head(wire[c]).payload.content,
             Head(wire[c]).payload.savedBy)

\* POST /documents/:id/versions/:versionId/restore succeeds: the content of
\* the snapshot becomes a new save, and the answer reaches the client
Restored(c) ==
  /\ pendingRestore[c] # NoRestore
  /\ CanAppend(pendingRestore[c].id)
  /\ LET d == pendingRestore[c].id
         S == snapshots[d][pendingRestore[c].version]
     IN /\ RestoreOk(c, S.content)
        /\ Persist(d, S.content, user[c])
  /\ HasRoom(1)
  /\ Transmit(c)
  /\ UNCHANGED <<user, docs, rooms, inbox, relayed, session, dashboard, registration>>

InitSaved ==
  /\ InitClient
  /\ InitNet
  /\ user = [c \in Clients |-> IF c = "c1" THEN "u1" ELSE "u2"]
  /\ docs = [d \in DocIds |->
               [_id |-> d, owner |-> "u1",
                sharedWith |-> <<[userId |-> "u2", role |-> "editor"]>>]]
  /\ InitStore

NextStore ==
  \/ Mount(Solo, RoomDoc) /\ wire[Solo] = <<>> /\ InRoom(Solo)
  \/ FetchOk(Solo, RoomDoc, RoomData) /\ HasRoom(1) /\ InRoom(Solo)
  \/ Connect(Solo) /\ InRoom(Solo)
  \/ \E x \in Contents : UserEdit(Solo, x) /\ HasRoom(1) /\ InRoom(Solo)
  \/ ManualSave(Solo) /\ HasRoom(1) /\ InRoom(Solo)
  \/ SaveTimer(Solo) /\ InRoom(Solo)
  \/ Unmount(Solo) /\ Len(wire[Solo]) + 2 <= MaxInTransit /\ InRoom(Solo)
  \/ OpenHistory(Solo) /\ editor[Solo].versionReqs = <<>> /\ InRoom(Solo)
  \/ FetchVersionsOk(Solo) /\ InRoom(Solo)
  \/ RestoreClick(Solo, TRUE) /\ InRoom(Solo)
  \/ Restored(Solo)
  \/ RestoreFailed(Solo) /\ InRoom(Solo)
  \/ GatewayJoin(Solo) /\ NoStore
  \/ GatewaySendChanges(Solo) /\ NoStore
  \/ GatewayPersist(Solo)
  \/ GatewayLeave(Solo) /\ NoStore

SpecStore == InitSaved /\ [][NextStore]_vars

----------------------------------------------------------------------------
(* The role derivation over every document and user of the bounded sets *)

InitRole ==
  /\ InitClient
  /\ InitNet
  /\ user \in [Clients -> Users]
  /\ user["c2"] = "u2"
  /\ \E doc \in AllDocs(RoomDoc) :
       docs = [d \in DocIds |->
                 IF d = RoomDoc THEN doc
                 ELSE [_id |-> d, owner |-> "u1", sharedWith |-> <<>>]]
  /\ InitStore

NextRole ==
  \/ Mount(Solo, RoomDoc) /\ Alone
  \/ FetchOk(Solo, RoomDoc, RoomData) /\ Alone
  \/ FetchFailed(Solo, RoomDoc) /\ Alone
  \/ Unmount(Solo) /\ Alone

SpecRole == InitRole /\ [][NextRole]_vars

----------------------------------------------------------------------------
(* The history modal over a document with any number of snapshots *)

\* the first n snapshots of a document its owner saved again and again
History(d, n) ==
  [i \in 1..n |-> [content |-> IF i % 2 = 1 THEN "a" ELSE "b",
                   savedBy |-> docs[d].owner]]

InitVersions ==
  /\ InitClient
  /\ InitNet
  /\ user = [c \in Clients |-> IF c = "c1" THEN "u1" ELSE "u2"]
  /\ docs = [d \in DocIds |-> [_id |-> d, owner |-> "u1", sharedWith |-> <<>>]]
  /\ \E n \in 0..MaxSnapshots :
       /\ snapshots = [d \in DocIds |-> IF d = RoomDoc THEN History(d, n) ELSE <<>>]
       /\ canonical = [d \in DocIds |->
                         IF d = RoomDoc /\ n > 0 THEN Last(History(d, n)).content
                         ELSE Null]

NextVersions ==
  \/ Mount(Solo, RoomDoc) /\ Alone
  \/ FetchOk(Solo, RoomDoc, RoomData) /\ Alone
  \/ OpenHistory(Solo) /\ Alone
  \/ CloseHistory(Solo) /\ Alone
  \/ FetchVersionsOk(Solo) /\ Alone
  \/ FetchVersionsFailed(Solo) /\ Alone
  \/ PageClick(Solo, -1) /\ Alone
  \/ PageClick(Solo, 1) /\ Alone
  \/ Unmount(Solo) /\ Alone

SpecVersions == InitVersions /\ [][NextVersions]_vars

----------------------------------------------------------------------------
(* The auth context with the routes it guards *)

\* a step of another page: the editor pages, the gateway and the stores
\* are left alone
Aside(op) ==
  /\ step' = [op |-> op, c |-> Solo]
  /\ emitted' = <<>>
  /\ UNCHANGED <<editor, inflight, pendingRestore, lastRecv, user, docs,
                 sendBuffer, wire, rooms, inbox, relayed, canonical, snapshots>>

\* the effect of AuthProvider (lines 10-26) runs after the first commit
Startup ==
  /\ ~session.started
  /\ session' = Commit(checkUserLoggedIn(session))
  /\ toasts' = <<>>
  /\ Aside("checkUserLoggedIn")
  /\ UNCHANGED <<dashboard, registration>>

\* GET /auth/profile answers: the server accepts the token it issued
ProfileOk ==
  /\ session.checking
  /\ session.token = "good"
  /\ session' = Commit(profileOk(session, user[Solo]))
  /\ toasts' = <<>>
  /\ Aside("profileOk")
  /\ UNCHANGED <<dashboard, registration>>

\* the token is rejected, or the request fails for another reason
ProfileFailed ==
  /\ session.checking
  /\ session' = Commit(profileFailed(session))
  /\ toasts' = <<>>
  /\ Aside("profileFailed")
  /\ UNCHANGED <<dashboard, registration>>

\* login is called from the login page, register from the registration
\* page (lines 28-29, 35-36)
Call(kind) ==
  /\ session.screen = (IF kind = "login" THEN "Login" ELSE "Register")
  /\ Len(session.calls) < MaxCalls
  /\ session' = [session EXCEPT !.calls = Append(@, kind)]
  /\ toasts' = <<>>
  /\ Aside("call")
  /\ UNCHANGED <<dashboard, registration>>

CallOk ==
  /\ \E i \in 1..Len(session.calls) :
       session' = Commit([signedIn(session, user[Solo]) EXCEPT
                            !.calls = Answered(@, i)])
  /\ toasts' = <<>>
  /\ Aside("signedIn")
  /\ UNCHANGED <<dashboard, registration>>

\* the call throws at its await: nothing is stored
CallFailed ==
  /\ \E i \in 1..Len(session.calls) :
       session' = [session EXCEPT !.calls = Answered(@, i)]
  /\ toasts' = <<>>
  /\ Aside("callFailed")
  /\ UNCHANGED <<dashboard, registration>>

\* the Logout button of the Dashboard (Dashboard.jsx line 78)
Logout ==
  /\ session.screen = "Dashboard"
  /\ session' = Commit(logout(session))
  /\ toasts' = <<>>
  /\ Aside("logout")
  /\ UNCHANGED <<dashboard, registration>>

\* the location changes: a link, a navigate call of a page, the address bar
Go(path) ==
  /\ session.started
  /\ path # session.path
  /\ session' = Commit([session EXCEPT !.path = path])
  /\ toasts' = <<>>
  /\ Aside("go")
  /\ UNCHANGED <<dashboard, registration>>

\* a rendered <Navigate replace> changes the location
Redirect ==
  /\ session.screen \in {"Navigate /login", "Navigate /"}
  /\ session' = Commit([session EXCEPT
                          !.path = IF session.screen = "Navigate /login"
                                   THEN "/login" ELSE "/"])
  /\ toasts' = <<>>
  /\ Aside("redirect")
  /\ UNCHANGED <<dashboard, registration>>

InitAuth ==
  /\ InitEditor
  /\ InitNet
  /\ user = [c \in Clients |-> IF c = "c1" THEN "u1" ELSE "u2"]
  /\ docs = [d \in DocIds |-> [_id |-> d, owner |-> "u1", sharedWith |-> <<>>]]
  /\ InitStore
  \* localStorage 'token': none, one the server rejects, one it accepts
  /\ \E token \in {Null, "expired", "good"} : session = AuthProvider(token)
  /\ dashboard = Dashboard
  /\ registration = Register

NextAuth ==
  \/ Startup
  \/ ProfileOk
  \/ ProfileFailed
  \/ Call("login")
  \/ Call("register")
  \/ CallOk
  \/ CallFailed
  \/ Logout
  \/ \E path \in {"/login", "/register", "/", "/d/D1", "/x"} : Go(path)
  \/ Redirect

SpecAuth == InitAuth /\ [][NextAuth]_vars

----------------------------------------------------------------------------
(* The Dashboard of a signed-in user *)

\* lines 20-22: the list is requested when the page mounts; delete requests
\* of an earlier visit stay in flight and answer to nobody
DashMount ==
  /\ session.screen = "Dashboard"
  /\ ~dashboard.mounted
  /\ dashboard' = fetchDocuments([Dashboard EXCEPT
                                    !.mounted = TRUE,
                                    !.deletes = dashboard.deletes,
                                    !.deleted = dashboard.deleted])
  /\ toasts' = <<>>
  /\ Aside("fetchDocuments")
  /\ UNCHANGED <<session, registration>>

FetchDocumentsOk ==
  /\ dashboard.mounted
  /\ dashboard.fetching
  /\ dashboard' = [fetchDocumentsOk(dashboard, Listed(user[Solo], dashboard.deleted))
                     EXCEPT !.removed = {}]
  /\ toasts' = <<>>
  /\ Aside("fetchDocumentsOk")
  /\ UNCHANGED <<session, registration>>

FetchDocumentsFailed ==
  /\ dashboard.mounted
  /\ dashboard.fetching
  /\ dashboard' = fetchDocumentsFailed(dashboard)
  /\ toasts' = <<>>
  /\ Aside("fetchDocumentsFailed")
  /\ UNCHANGED <<session, registration>>

\* lines 93-97, 106, 134-143: the delete button of a listed document the
\* user owns; window.confirm answers before the handler goes on
DeleteClick(id, confirmed) ==
  /\ dashboard.mounted
  /\ ~dashboard.loading
  /\ dashboard.error = Null
  /\ \E i \in 1..Len(dashboard.documents) : dashboard.documents[i] = id
  /\ docs[id].owner = session.user
  /\ Len(dashboard.deletes) < MaxDeletes
  /\ dashboard' = handleDeleteDocument(dashboard, id, confirmed)
  /\ toasts' = <<>>
  /\ Aside(IF confirmed THEN "handleDeleteDocument" ELSE "declined")
  /\ UNCHANGED <<session, registration>>

\* DELETE /documents/:id succeeds for the owner of a document that exists;
\* the answer reaches the handler if its page is still mounted
DeleteOk(i) ==
  /\ i \in 1..Len(dashboard.deletes)
  /\ dashboard.deletes[i].id \notin dashboard.deleted
  /\ LET req == dashboard.deletes[i]
         st == IF req.live THEN [deleteOk(dashboard, req) EXCEPT
                                   !.removed = @ \cup {req.id}]
               ELSE dashboard
     IN dashboard' = [st EXCEPT !.deletes = Answered(@, i),
                                !.deleted = @ \cup {req.id}]
  /\ toasts' = <<>>
  /\ Aside("deleteOk")
  /\ UNCHANGED <<session, registration>>

\* lines 61-67: the request fails, the handler alerts
DeleteFailed(i) ==
  /\ i \in 1..Len(dashboard.deletes)
  /\ dashboard' = [dashboard EXCEPT !.deletes = Answered(@, i)]
  /\ toasts' = <<>>
  /\ Aside("deleteFailed")
  /\ UNCHANGED <<session, registration>>

\* the user leaves the page: its state is dropped
DashUnmount ==
  /\ dashboard.mounted
  /\ dashboard' = [Dashboard EXCEPT
                     !.deletes = [j \in 1..Len(dashboard.deletes) |->
                                    [dashboard.deletes[j] EXCEPT !.live = FALSE]],
                     !.deleted = dashboard.deleted]
  /\ toasts' = <<>>
  /\ Aside("unmount")
  /\ UNCHANGED <<session, registration>>

InitDashboard ==
  /\ InitEditor
  /\ InitNet
  /\ user = [c \in Clients |-> IF c = "c1" THEN "u1" ELSE "u2"]
  /\ docs \in [DocIds -> UNION {DocVariants(d, "u1") : d \in DocIds}]
  /\ \A d \in DocIds : docs[d]._id = d
  /\ InitStore
  \* the session after a startup check that accepted the token
  /\ session = Commit(profileOk(checkUserLoggedIn(AuthProvider("good")), user[Solo]))
  /\ dashboard = Dashboard
  /\ registration = Register

NextDashboard ==
  \/ DashMount
  \/ FetchDocumentsOk
  \/ FetchDocumentsFailed
  \/ \E id \in DocIds : DeleteClick(id, TRUE)
  \/ \E id \in DocIds : DeleteClick(id, FALSE)
  \/ \E i \in 1..MaxDeletes : DeleteOk(i)
  \/ \E i \in 1..MaxDeletes : DeleteFailed(i)
  \/ DashUnmount

SpecDashboard == InitDashboard /\ [][NextDashboard]_vars

----------------------------------------------------------------------------
(* The registration form of a visitor *)

Shown == session.screen = "Register" /\ ~registration.left

Requested(kind) ==
  /\ Shown
  /\ registration.request # NoRequest
  /\ registration.request.kind = kind

\* line 98: the e-mail field of step 1 stays editable while the request
\* is in flight
TypeEmail(email) ==
  /\ Shown
  /\ registration.step = 1
  /\ email # registration.email
  /\ registration' = [registration EXCEPT !.email = email]
  /\ toasts' = <<>>
  /\ Aside("setEmail")
  /\ UNCHANGED <<session, dashboard>>

\* line 118
TypeOtp(otp) ==
  /\ Shown
  /\ registration.step = 2
  /\ otp # registration.otp
  /\ registration' = [registration EXCEPT !.otp = otp]
  /\ toasts' = <<>>
  /\ Aside("setOtp")
  /\ UNCHANGED <<session, dashboard>>

\* lines 91-106: the form of step 1 submits when its button is enabled and
\* the required field is filled
SubmitSendOTP ==
  /\ Shown
  /\ registration.step = 1
  /\ ~registration.isLoading
  /\ registration.email # ""
  /\ registration' = handleSendOTP(registration)
  /\ toasts' = <<>>
  /\ Aside("handleSendOTP")
  /\ UNCHANGED <<session, dashboard>>

SendOtpOk ==
  /\ Requested("send-otp")
  /\ registration' = sendOtpOk(registration)
  /\ toasts' = <<"OTP sent to your email!">>
  /\ Aside("sendOtpOk")
  /\ UNCHANGED <<session, dashboard>>

SendOtpFailed(err) ==
  /\ Requested("send-otp")
  /\ registration' = sendOtpFailed(registration, err)
  /\ toasts' = <<>>
  /\ Aside("sendOtpFailed")
  /\ UNCHANGED <<session, dashboard>>

\* lines 111-127: the button of step 2 needs six characters, the field six
\* digits
SubmitVerifyOTP ==
  /\ Shown
  /\ registration.step = 2
  /\ ~registration.isLoading
  /\ SixDigits(registration.otp)
  /\ registration' = handleVerifyOTP(registration)
  /\ toasts' = <<>>
  /\ Aside("handleVerifyOTP")
  /\ UNCHANGED <<session, dashboard>>

VerifyOtpOk ==
  /\ Requested("verify-otp")
  /\ registration' = verifyOtpOk(registration)
  /\ toasts' = <<"Email verified!">>
  /\ Aside("verifyOtpOk")
  /\ UNCHANGED <<session, dashboard>>

VerifyOtpFailed(err) ==
  /\ Requested("verify-otp")
  /\ registration' = verifyOtpFailed(registration, err)
  /\ toasts' = <<>>
  /\ Aside("verifyOtpFailed")
  /\ UNCHANGED <<session, dashboard>>

\* lines 128-136
ChangeEmail ==
  /\ Shown
  /\ registration.step = 2
  /\ ~registration.isLoading
  /\ registration' = [registration EXCEPT !.step = 1]
  /\ toasts' = <<>>
  /\ Aside("changeEmail")
  /\ UNCHANGED <<session, dashboard>>

\* lines 142-169
SubmitRegister ==
  /\ Shown
  /\ registration.step = 3
  /\ ~registration.isLoading
  /\ registration' = handleFinalRegister(registration)
  /\ toasts' = <<>>
  /\ Aside("handleFinalRegister")
  /\ UNCHANGED <<session, dashboard>>

\* register of the auth context stored the token and the user; the page
\* navigates to "/"
RegisterOk ==
  /\ Requested("register")
  /\ registration' = registerOk(registration)
  /\ session' = Commit([signedIn(session, user[Solo]) EXCEPT !.path = "/"])
  /\ toasts' = <<"Account created successfully!">>
  /\ Aside("registerOk")
  /\ UNCHANGED dashboard

RegisterFailed(err) ==
  /\ Requested("register")
  /\ registration' = registerFailed(registration, err)
  /\ toasts' = <<>>
  /\ Aside("registerFailed")
  /\ UNCHANGED <<session, dashboard>>

InitRegister ==
  /\ InitEditor
  /\ InitNet
  /\ user = [c \in Clients |-> IF c = "c1" THEN "u1" ELSE "u2"]
  /\ docs = [d \in DocIds |-> [_id |-> d, owner |-> "u1", sharedWith |-> <<>>]]
  /\ InitStore
  \* the session of a visitor without a token, after the startup check
  /\ session = Commit(checkUserLoggedIn([AuthProvider(Null) EXCEPT
                                           !.path = "/register"]))
  /\ dashboard = Dashboard
  /\ registration = Register

NextRegister ==
  \/ \E email \in {"e1", "e2"} : TypeEmail(email)
  \* the OTP field: empty, too short, and two codes of six digits
  \/ \E otp \in {"", "12345", "123456", "654321"} : TypeOtp(otp)
  \/ SubmitSendOTP
  \/ SendOtpOk
  \/ \E err \in {Null, "message", "errors"} : SendOtpFailed(err)
  \/ SubmitVerifyOTP
  \/ VerifyOtpOk
  \/ \E err \in {Null, "message", "errors"} : VerifyOtpFailed(err)
  \/ ChangeEmail
  \/ SubmitRegister
  \/ RegisterOk
  \/ \E err \in {Null, "message", "errors"} : RegisterFailed(err)

SpecRegister == InitRegister /\ [][NextRegister]_vars

----------------------------------------------------------------------------
(* Claims *)

IsWrite(e) == e.ev \in {"send-changes", "save-document"}
Saves(q) == SelectSeq(q, LAMBDA e : e.ev = "save-document")

\* C1: no send-changes and no save-document is emitted while the role
\* derived from the committed document is viewer.
C1_ViewerNeverEmits ==
  \A i \in 1..Len(emitted) : IsWrite(emitted[i]) => emitted[i].role # "viewer"

\* C2: an incoming receive-changes payload becomes the draft, whatever the
\* role and the previous draft, and the client emits nothing in response.
C2_RemoteOverwritesSilently ==
  \A c \in Clients :
    (step.op = "Receive" /\ step.c = c) =>
      /\ editor[c].content = lastRecv[c].content
      /\ emitted = <<>>

C2_Witness ==
  /\ step.op = "Receive"
  /\ EditorShown(Solo)
  /\ Role(Solo) = "editor"
  /\ editor[Solo].content = "b"

\* C3 as stated: a user edit sets the draft and emits exactly one
\* send-changes whose payload is {documentId, content}.
C3_PayloadNamesContent ==
  \A c \in Clients :
    (step.op = "UserEdit" /\ step.c = c) =>
      /\ Len(emitted) = 1
      /\ emitted[1].ev = "send-changes"
      /\ emitted[1].payload = [documentId |-> editor[c].id, content |-> editor[c].content]

\* C3 amended: a user edit sets the draft and emits exactly one send-changes
\* whose payload is {documentId, delta}, delta being the whole new draft.
C3_PayloadNamesDelta ==
  \A c \in Clients :
    (step.op = "UserEdit" /\ step.c = c) =>
      /\ editor[c].content = lastRecv[c].content
      /\ Len(emitted) = 1
      /\ emitted[1].ev = "send-changes"
      /\ emitted[1].payload = [documentId |-> editor[c].id, delta |-> editor[c].content]

C3_Witness ==
  /\ step.op = "UserEdit"
  /\ editor[Solo].content = "b"
  /\ Len(emitted) = 1

\* C4: leaving the page with edit rights, a connected socket and a non-empty
\* draft emits exactly one save-document, carrying that draft.
C4_OneSaveOnLeave ==
  [][\A c \in Clients :
       ( /\ editor[c].mounted /\ ~editor'[c].mounted
         /\ ~ReadOnly(c)
         /\ editor[c].socket = "connected"
         /\ editor[c].content # "" ) =>
           /\ Len(Saves(emitted')) = 1
           /\ Saves(emitted')[1].payload.content = editor[c].content]_vars

\* C5: no save-document and no send-changes is emitted on a socket on which
\* disconnect() was already called.
C5_NoEmitAfterDisconnect ==
  \A i \in 1..Len(emitted) : IsWrite(emitted[i]) => ~emitted[i].closed

\* C6: a manual save shows success only when save-document was handed to a
\* connected socket.
C6_SuccessOnlyIfHandedOver ==
  (step.op = "ManualSave" /\ \E i \in 1..Len(toasts) : toasts[i].kind = "success") =>
    /\ Len(emitted) = 1
    /\ emitted[1].ev = "save-document"
    /\ emitted[1].connected

\* C7: a socket exists only once the fetch for the current id has succeeded,
\* and the error state has no connection.
C7_ConnectOnlyAfterFetch ==
  \A c \in Clients :
    /\ editor[c].socket # Null =>
         editor[c].document # NoDocument /\ editor[c].document._id = editor[c].id
    /\ editor[c].error # Null => editor[c].socket = Null

\* the claim's derivation: owner by owner id, else the granted role, else viewer
ClaimedRole(doc, u) ==
  IF doc.owner = u THEN "owner"
  ELSE IF \E i \in 1..Len(doc.sharedWith) : doc.sharedWith[i].userId = u
       THEN CHOOSE r \in Roles :
              \E i \in 1..Len(doc.sharedWith) :
                doc.sharedWith[i].userId = u /\ doc.sharedWith[i].role = r
       ELSE "viewer"

\* C8: the derived role is owner iff the owner id is the user's id, else
\* the role granted in sharedWith, else viewer; read-only iff viewer.
C8_RoleDerivation ==
  \A c \in Clients :
    editor[c].document # NoDocument =>
      /\ userRole(editor[c].document, user[c]) = ClaimedRole(editor[c].document, user[c])
      /\ (userRole(editor[c].document, user[c]) = "owner"
            <=> editor[c].document.owner = user[c])
      /\ (isReadOnly(editor[c].document, user[c])
            <=> ClaimedRole(editor[c].document, user[c]) = "viewer")

C8_Witness ==
  /\ editor[Solo].document # NoDocument
  /\ Len(editor[Solo].document.sharedWith) = 2
  /\ editor[Solo].document.sharedWith[2].userId = user[Solo]
  /\ Role(Solo) = "editor"

\* C9: the draft is the content of the event received last (fetch, user
\* edit, remote payload, restore); a document without content reads as "".
C9_DraftIsLastReceived ==
  \A c \in Clients :
    (editor[c].mounted /\ lastRecv[c].seen) =>
      editor[c].content = (IF lastRecv[c].content = Null THEN "" ELSE lastRecv[c].content)

C9_Witness ==
  /\ step.op = "FetchOk"
  /\ editor[Solo].routed = 1
  /\ editor[Solo].document._id # editor[Solo].id
  /\ editor[Solo].content = "b"

Quiescent ==
  \A c \in Clients : wire[c] = <<>> /\ sendBuffer[c] = <<>> /\ inbox[c] = <<>>

\* the clients that were in the room when the last send-changes was relayed
\* and still show the editor there
Audience(d) ==
  IF relayed[d] = NoRelay THEN {}
  ELSE {c \in relayed[d].members \cap rooms[d] :
          EditorShown(c) /\ editor[c].socket = "connected"}

\* C10 as stated: once every broadcast is delivered, every client of the
\* room, the senders included, displays the last relayed content.
C10_AllDisplayLastBroadcast ==
  Quiescent =>
    \A d \in DocIds : \A c \in Audience(d) : editor[c].content = relayed[d].content

\* C10 amended: once every broadcast is delivered, every client of the room
\* other than the last writer displays the last relayed content.
C10_OthersDisplayLastBroadcast ==
  Quiescent =>
    \A d \in DocIds : \A c \in Audience(d) :
      c # relayed[d].by => editor[c].content = relayed[d].content

C10_Witness ==
  /\ Quiescent
  /\ Audience(RoomDoc) = Clients
  /\ editor["c1"].content = "a"
  /\ editor["c2"].content = "b"
  /\ relayed[RoomDoc].content = "a"

\* C11: a send-changes is relayed, verbatim and in arrival order, to every
\* member of the room but its sender; each relayed payload is displayed by
\* the client it was relayed to, oldest first, and is eventually displayed
\* unless that client leaves the page.
C11_RelayedInOrderToOthers ==
  /\ [][\A c \in Clients :
         /\ (step'.op = "GatewaySendChanges" /\ step'.c = c) =>
              LET d == Head(wire[c]).payload.documentId
                  x == Head(wire[c]).payload.delta
              IN \A p \in Clients :
                   inbox'[p] = IF c \in rooms[d] /\ p \in rooms[d] /\ p # c
                               THEN Append(inbox[p], x) ELSE inbox[p]
         /\ (step'.op = "Receive" /\ step'.c = c) =>
              /\ editor'[c].content = Head(inbox[c])
              /\ inbox'[c] = Tail(inbox[c])]_vars
  /\ \A c \in Clients : \A x \in Contents :
       (inbox[c] # <<>> /\ Head(inbox[c]) = x)
         ~> ((step.op = "Receive" /\ step.c = c /\ editor[c].content = x)
               \/ ~editor[c].mounted)

C11_Witness ==
  /\ step.op = "Receive"
  /\ step.c = "c2"
  /\ editor["c2"].content = "b"
  /\ inbox["c2"] = <<"a">>
  /\ inbox["c1"] = <<>>
  /\ relayed[RoomDoc].by = "c1"

C13_RestoreSetsDraftAndSendsOnce ==
  step.op = "RestoreOk" =>
    /\ Len(emitted) = 1
    /\ emitted[1].ev = "send-changes"
    /\ ~emitted[1].closed
    /\ emitted[1].payload =
         [documentId |-> editor[Solo].id, delta |-> editor[Solo].content]

\* C19: the editor is shown only for the document of the current route id
\* (no draft or role of another document under it), and every send-changes
\* and save-document names the document whose content the page held when
\* the event was emitted.
C19_DocumentIdMatchesContent ==
  [][/\ EditorShown(Solo)' => (editor[Solo].document._id = editor[Solo].id)'
     /\ \A i \in 1..Len(emitted') :
          (IsWrite(emitted'[i]) /\ editor[Solo].document # NoDocument) =>
             emitted'[i].payload.documentId = editor[Solo].document._id]_vars

\* C20: a restore that is declined in the confirmation dialog or whose
\* request fails leaves the draft and the open modal as they were and emits
\* nothing; isRestoring is set only while a restore request is pending, so
\* it is false again after the request's answer, whatever the outcome.
C20_DeclinedOrFailedRestoreChangesNothing ==
  [][/\ (RestoreClick(Solo, FALSE) \/ step'.op = "RestoreFailed") =>
          /\ editor'[Solo].content = editor[Solo].content
          /\ editor'[Solo].showHistoryModal = editor[Solo].showHistoryModal
          /\ emitted' = <<>>
     /\ editor'[Solo].isRestoring => pendingRestore'[Solo] # NoRestore]_vars

C20_Witness ==
  /\ step.op = "RestoreFailed"
  /\ editor[Solo].mounted
  /\ editor[Solo].showHistoryModal
  /\ ~editor[Solo].isRestoring
  /\ editor[Solo].content = "a"
  /\ toasts = <<Toast("error", "Failed to restore document version")>>

Positions(snaps, from, to) ==
  [i \in 1..(to - from + 1) |->
     [_id |-> Len(snaps) + 1 - (from + i - 1),
      savedBy |-> snaps[Len(snaps) + 1 - (from + i - 1)].savedBy]]

Min(a, b) == IF a <= b THEN a ELSE b

Ceil(n, k) == CHOOSE q \in 0..n : q * k >= n /\ (q = 0 \/ (q - 1) * k < n)

\* C16: the answer to a listing request for page p over n snapshots holds
\* the snapshots at the newest-first positions 5(p-1)+1 .. min(5p, n), and
\* after the answer the page holds exactly these as versions, p as
\* versionPage and ceil(n/5) as versionTotalPages; the answer depends on
\* nothing but the snapshots and p, so a repeated request is answered alike.
C16_ListingPageStored ==
  [][FetchVersionsOk(Solo) =>
       \E i \in 1..Len(editor[Solo].versionReqs) :
          LET p == editor[Solo].versionReqs[i].page
              snaps == snapshots[editor[Solo].versionReqs[i].id]
              n == Len(snaps)
          IN /\ editor'[Solo].versionReqs = Answered(editor[Solo].versionReqs, i)
             /\ editor'[Solo].versions =
                  Positions(snaps, PageLimit * (p - 1) + 1, Min(PageLimit * p, n))
             /\ editor'[Solo].versionPage = p
             /\ editor'[Solo].versionTotalPages = Ceil(n, PageLimit)
             /\ ~editor'[Solo].isLoadingVersions]_vars

C16_Witness ==
  /\ Len(snapshots[RoomDoc]) = 7
  /\ editor[Solo].versionReqs = <<>>
  /\ editor[Solo].versions = <<[_id |-> 2, savedBy |-> "u1"], [_id |-> 1, savedBy |-> "u1"]>>
  /\ editor[Solo].versionPage = 2
  /\ editor[Solo].versionTotalPages = 2

\* C12: once nothing is in transit between a client and the gateway, a
\* client whose socket is connected is a member of the room of its document
\* (after a lost connection it has joined again).
C12_ConnectedIsMember ==
  \A c \in Clients :
    (/\ editor[c].mounted
     /\ editor[c].socket = "connected"
     /\ wire[c] = <<>>
     /\ sendBuffer[c] = <<>>) => c \in rooms[editor[c].id]

\* the save-document events on their way from the page to the gateway
Unsaved == Saves(wire[Solo] \o sendBuffer[Solo])

\* C15: a manual save emits one save-document naming the open document, the
\* current draft and the user; the gateway makes its content the canonical
\* content and appends a snapshot with that content and savedBy; and no
\* save-document handed to the socket is lost before the gateway has it.
C15_ManualSaveIsPersisted ==
  [][/\ step'.op = "ManualSave" =>
          /\ Len(emitted') = 1
          /\ emitted'[1].ev = "save-document"
          /\ emitted'[1].payload =
               [documentId |-> editor[Solo].id, content |-> editor[Solo].content,
                savedBy |-> user[Solo]]
     /\ step'.op = "GatewaySave" =>
          LET p == Head(wire[Solo]).payload
          IN /\ canonical'[p.documentId] = p.content
             /\ snapshots'[p.documentId] =
                  Append(snapshots[p.documentId],
                         [content |-> p.content, savedBy |-> p.savedBy])
     /\ Len(Unsaved') + Len(snapshots'[RoomDoc])
          >= Len(Unsaved) + Len(snapshots[RoomDoc])]_vars

\* C14: every step leaves the snapshots a document has in place, unchanged,
\* and appends at most one; a save-document the gateway processes (manual
\* save or the flush of a leaving page) appends exactly one, and a restore
\* of snapshot S appends one whose content is that of S, which also becomes
\* the canonical content.
C14_SnapshotsAppendOnly ==
  [][\A d \in DocIds :
       LET n == Len(snapshots[d])
       IN /\ \/ snapshots'[d] = snapshots[d]
             \/ /\ Len(snapshots'[d]) = n + 1
                /\ SubSeq(snapshots'[d], 1, n) = snapshots[d]
          /\ (step'.op = "GatewaySave" /\ Head(wire[Solo]).payload.documentId = d) =>
               Len(snapshots'[d]) = n + 1
          /\ (step'.op = "RestoreOk" /\ pendingRestore[Solo].id = d) =>
               LET S == snapshots[d][pendingRestore[Solo].version]
               IN /\ Len(snapshots'[d]) = n + 1
                  /\ Last(snapshots'[d]).content = S.content
                  /\ canonical'[d] = S.content]_vars

C14_Witness ==
  /\ step.op = "RestoreOk"
  /\ Len(snapshots[RoomDoc]) = 4
  /\ SubSeq(snapshots[RoomDoc], 1, 2) = Saved(RoomDoc)
  /\ snapshots[RoomDoc][3].content = ""
  /\ snapshots[RoomDoc][4].content = "a"
  /\ canonical[RoomDoc] = "a"

\* C25: a page button starts a request only when no listing request is in
\* flight, and the page it requests lies within 1..versionTotalPages.
C25_PageRequestsOneAtATime ==
  [][(PageClick(Solo, -1) \/ PageClick(Solo, 1)) =>
       /\ editor[Solo].versionReqs = <<>>
       /\ Last(editor'[Solo].versionReqs).page \in 1..editor[Solo].versionTotalPages]_vars

\* C23: a user is set only while a token is stored; logout clears the token
\* and the user; a login or register call that fails changes neither; the
\* startup check ends with loading false, with the user set and the token
\* kept when the token is accepted, with the token removed and no user when
\* it is rejected, and at once when no token is stored.
C23_UserImpliesToken ==
  [][/\ session'.user # Null => session'.token # Null
     /\ step'.op = "logout" => session'.token = Null /\ session'.user = Null
     /\ step'.op = "callFailed" =>
          session'.token = session.token /\ session'.user = session.user
     /\ step'.op = "profileOk" =>
          /\ ~session'.loading
          /\ session'.user # Null
          /\ session'.token = session.token
     /\ step'.op = "profileFailed" =>
          /\ ~session'.loading
          /\ session'.user = Null
          /\ session'.token = Null
     /\ (step'.op = "checkUserLoggedIn" /\ session.token = Null) =>
          ~session'.loading
     /\ (session'.started /\ ~session'.checking) => ~session'.loading]_vars

C23_Witness ==
  /\ step.op = "profileFailed"
  /\ session.token = Null
  /\ session.user = Null
  /\ ~session.loading
  /\ session.screen = "Navigate /login"

\* C24: the Dashboard and the editor are rendered only when the startup
\* check is over and a user is set; while loading nothing is rendered; with
\* no user a protected location renders the redirect to /login, right after
\* a logout too, and the redirect leads to the login page.
C24_ProtectedOnlyWithUser ==
  [][/\ session'.screen \in {"Dashboard", "DocumentEditor"} =>
          /\ ~session'.loading
          /\ session'.started /\ ~session'.checking
          /\ session'.user # Null
     /\ session'.loading => session'.screen = "nothing"
     /\ (/\ ~session'.loading
         /\ session'.user = Null
         /\ session'.path \in {"/", "/d/D1"}) => session'.screen = "Navigate /login"
     /\ step'.op = "logout" => session'.screen = "Navigate /login"
     /\ (step'.op = "redirect" /\ session.screen = "Navigate /login") =>
          session'.screen = "Login"]_vars

C24_Witness ==
  /\ step.op = "logout"
  /\ session.screen = "Navigate /login"
  /\ session.path = "/"
  /\ session.user = Null

\* C21: a document whose delete request succeeded stays out of the list
\* until the list is fetched again, whatever the order in which several
\* requests in flight are answered; a failed delete leaves the list as it
\* was.
C21_DeletedStaysAbsent ==
  [][/\ \A id \in dashboard'.removed :
          \A i \in 1..Len(dashboard'.documents) : dashboard'.documents[i] # id
     /\ step'.op = "deleteFailed" => dashboard'.documents = dashboard.documents]_vars

\* C22: the step of the registration form changes only from 1 to 2 when
\* send-otp succeeded, from 2 to 3 when verify-otp succeeded and from 2 to 1
\* by Change Email; a register request starts only at step 3 and carries the
\* e-mail of the last verify-otp that succeeded; every answer, success or
\* failure, ends with isLoading false, and a failure keeps the step and sets
\* an error.
C22_StepsFollowVerification ==
  [][/\ registration'.step # registration.step =>
          \/ /\ registration.step = 1 /\ registration'.step = 2
             /\ step'.op = "sendOtpOk"
          \/ /\ registration.step = 2 /\ registration'.step = 3
             /\ step'.op = "verifyOtpOk"
          \/ /\ registration.step = 2 /\ registration'.step = 1
             /\ step'.op = "changeEmail"
     /\ step'.op = "handleFinalRegister" =>
          /\ registration.step = 3
          /\ registration'.request.kind = "register"
          /\ registration'.request.email = registration.verified
     /\ step'.op \in {"sendOtpOk", "verifyOtpOk", "registerOk",
                      "sendOtpFailed", "verifyOtpFailed", "registerFailed"} =>
          ~registration'.isLoading
     /\ step'.op \in {"sendOtpFailed", "verifyOtpFailed", "registerFailed"} =>
          /\ registration'.step = registration.step
          /\ registration'.error # Null]_vars

C22_Witness ==
  /\ step.op = "registerFailed"
  /\ registration.step = 3
  /\ registration.verified = registration.email
  /\ registration.error = "Registration failed"
  /\ ~registration.isLoading

====
